---- MODULE Spec2Model ----
(***************************************************************************)
(* Model of ram/comprehensive_ram_test.py: the memory-test algorithms, the *)
(* orchestrator ComprehensiveRAMTest.run_comprehensive_test and main().    *)
(*                                                                         *)
(* A test block (Python bytearray) is a function from word index to a      *)
(* tuple of 8 bytes; byte offset o lives in word o \div 8 at position      *)
(* (o % 8) + 1.  64-bit values are kept as their little-endian byte tuple  *)
(* (the result of int.to_bytes(8, 'little')), so that a comparison of two  *)
(* integers read with int.from_bytes is a comparison of the tuples.        *)
(***************************************************************************)
EXTENDS Integers, Sequences, FiniteSets, TLC

----------------------------------------------------------------------------
(* Bounds of the model *)

\* number of 8-byte words that stand for one MiB (1024 * 1024 bytes)
WordsPerMiB == 3
\* largest JEDEC block, in words, of the stand-alone JEDEC runs
MaxJedecWords == 9

MiB == 8 * WordsPerMiB

----------------------------------------------------------------------------
(* Bytes, words and the test block *)

Byte == 0..255

Zero8 == <<0, 0, 0, 0, 0, 0, 0, 0>>

Ones8 == <<255, 255, 255, 255, 255, 255, 255, 255>>

Min(a, b) == IF a < b THEN a ELSE b

\* v.to_bytes(n, 'little') for 0 <= v < 2^31
ToBytesLE(v, n) ==
  [k \in 1..n |-> IF k <= 4 THEN (v \div (256 ^ (k - 1))) % 256 ELSE 0]

\* the byte b with bit number bit forced to value val
ForceBit(b, bit, val) ==
  LET cur == (b \div (2 ^ bit)) % 2
  IN b + (val - cur) * (2 ^ bit)

\* The memory backend behind the test block: healthy; one data bit stuck
\* at a value; address bit hi always taking the value of address bit lo;
\* every store to offset src also landing in offset dst; or no load
\* returning what was stored.
Healthy == [kind |-> "none"]

\* a backend whose every load returns 0x5A, whatever was stored
Dead == [kind |-> "dead"]

StuckAt(off, bit, val) ==
  [kind |-> "stuck", offset |-> off, bit |-> bit, value |-> val]

AddressShort(lo, hi) == [kind |-> "alias", lo |-> lo, hi |-> hi]

Mirror(src, dst) == [kind |-> "mirror", src |-> src, dst |-> dst]

\* the cell an access to offset a reaches
Decode(fault, a) ==
  IF fault.kind = "alias"
  THEN a + (((a \div (2 ^ fault.lo)) % 2) - ((a \div (2 ^ fault.hi)) % 2))
             * (2 ^ fault.hi)
  ELSE a

\* an allocation that succeeds whatever the count
AllocNeverRaises(block_size) == FALSE

\* bytearray(block_size) raises ValueError for a negative count
AllocRaises(block_size) == block_size < 0

\* the result of a test function that did not return
Raised == [errors |-> 0, operations |-> 0, raised |-> TRUE]

\* bytearray(block_size): zero-initialised
Alloc(block_size) == [w \in 0..((block_size \div 8) - 1) |-> Zero8]

\* a block of the same size with every byte equal to b
Filled(block_size, b) ==
  [w \in 0..((block_size \div 8) - 1) |-> [k \in 1..8 |-> b]]

\* len(test_block)
BlockLen(mem) == 8 * Cardinality(DOMAIN mem)

\* test_block[off] as the backend returns it; a slice that reaches beyond
\* the block is cut short and its missing bytes count as 0 in
\* int.from_bytes
LoadByte(mem, fault, off) ==
  LET a == Decode(fault, off)
      raw == IF (a \div 8) \in DOMAIN mem THEN mem[a \div 8][(a % 8) + 1]
             ELSE 0
  IN IF fault.kind = "stuck" /\ fault.offset = off
     THEN ForceBit(raw, fault.bit, fault.value)
     ELSE IF fault.kind = "dead" THEN 90
     ELSE raw

\* test_block[off:off+n], a slice that lies inside the block
ReadBytes(mem, fault, off, n) ==
  [k \in 1..n |-> LoadByte(mem, fault, off + k - 1)]

\* the index in the n bytes stored at off of the byte that cell o takes,
\* 0 when the store leaves cell o alone
StoredIndex(fault, off, n, o) ==
  IF fault.kind = "alias"
  THEN LET ks == {k \in 1..n : Decode(fault, off + k - 1) = o}
       IN IF ks = {} THEN 0 ELSE CHOOSE k \in ks : \A j \in ks : j <= k
  ELSE IF fault.kind = "mirror" /\ o = fault.dst
            /\ fault.src >= off /\ fault.src < off + n
       THEN fault.src - off + 1
       ELSE IF o >= off /\ o < off + n THEN o - off + 1 ELSE 0

\* test_block[off:off+len(bs)] = bs, a slice that lies inside the block
WriteBytes(mem, fault, off, bs) ==
  IF off % 8 = 0 /\ Len(bs) = 8 /\ fault.kind \in {"none", "stuck"}
  THEN [mem EXCEPT ![off \div 8] = bs]
  ELSE [w \in DOMAIN mem |->
          [k \in 1..8 |->
             LET i == StoredIndex(fault, off, Len(bs), 8 * w + k - 1)
             IN IF i = 0 THEN mem[w][k] ELSE bs[i]]]

\* number of values of range(lo, hi, step), step > 0
RangeCount(lo, hi, step) ==
  IF hi > lo THEN (hi - lo + step - 1) \div step ELSE 0

\* for k in range(lo, hi): st = Body(st, k).  The state the loop starts
\* from is evaluated before the loop is entered, and the left half before
\* the right half.
RECURSIVE ForRange(_, _, _, _)
ForRange(Body(_, _), st, lo, hi) ==
  IF st.operations < 0 \/ lo >= hi THEN st
  ELSE IF hi = lo + 1 THEN Body(st, lo)
  ELSE LET mid == (lo + hi) \div 2
           left == ForRange(Body, st, lo, mid)
       IN IF left.operations >= 0
          THEN ForRange(Body, left, mid, hi)
          ELSE left

----------------------------------------------------------------------------
(* JEDECPatternTest *)

\* the access is appended to the access history, where one is kept
Logged(st, access) ==
  IF "log" \in DOMAIN st THEN [st EXCEPT !.log = Append(@, access)] ELSE st

\* The counters of a test function are followed through its run: low is
\* the lowest value operations - errors has had after any statement,
\* low_step the lowest it has had at the end of a loop step.
Point(st) ==
  IF "low" \in DOMAIN st
  THEN [st EXCEPT !.low = Min(@, st.operations - st.errors)]
  ELSE st

StepEnd(st) ==
  IF "low" \in DOMAIN st
  THEN [st EXCEPT !.low = Min(@, st.operations - st.errors),
                  !.low_step = Min(@, st.operations - st.errors)]
  ELSE st

\* len(test_block) after test_block[off:off+n] = <n bytes>: a slice that
\* ends beyond the block extends the bytearray
LenAfterStore(length, off, n) ==
  IF off >= length THEN length + n
  ELSE IF off + n > length THEN off + n
  ELSE length

\* The extent of the bytearray is followed through the run: length is
\* len(test_block), inside tells that every access so far lay inside the
\* block.  The block itself keeps its first extent.
Touched(st, off, n, store) ==
  IF "length" \in DOMAIN st
  THEN [st EXCEPT !.inside = @ /\ off >= 0 /\ off + n <= st.length,
                  !.length = IF store THEN LenAfterStore(@, off, n) ELSE @]
  ELSE st

\* the state of a test function before its first statement
Fresh(test_block, block_size) ==
  [mem |-> test_block, errors |-> 0, operations |-> 0,
   low |-> 0, low_step |-> 0, length |-> block_size, inside |-> TRUE]

\* test_block[i:i+8] = wr; operations += 1
WritePass(st, fault, i, wr) ==
  Logged(StepEnd(Touched([st EXCEPT !.mem = WriteBytes(st.mem, fault, i, wr),
                                    !.operations = @ + 1],
                         i, 8, TRUE)),
         <<"write", i, wr>>)

\* a read/write pass that reads the word and compares nothing
ReadWritePassNoCompare(st, fault, i, exp, wr) ==
  Logged(Logged([st EXCEPT !.mem = WriteBytes(st.mem, fault, i, wr),
                           !.operations = @ + 2],
                <<"read", i, exp>>),
         <<"write", i, wr>>)

\* val = read; if val != exp: errors += 1; write wr; operations += 2
ReadWritePass(st, fault, i, exp, wr) ==
  LET r == Point(Touched(
             [st EXCEPT !.errors = @ + (IF ReadBytes(st.mem, fault, i, 8)
                                             # exp THEN 1 ELSE 0)],
             i, 8, FALSE))
      w == StepEnd(Touched(
             [r EXCEPT !.mem = WriteBytes(st.mem, fault, i, wr),
                       !.operations = @ + 2],
             i, 8, TRUE))
  IN Logged(Logged(w, <<"read", i, exp>>), <<"write", i, wr>>)

\* val = read; if val != exp: errors += 1; operations += 1
ReadPass(st, fault, i, exp) ==
  LET r == Point(Touched(
             [st EXCEPT !.errors = @ + (IF ReadBytes(st.mem, fault, i, 8)
                                             # exp THEN 1 ELSE 0)],
             i, 8, FALSE))
  IN Logged(StepEnd([r EXCEPT !.operations = @ + 1]), <<"read", i, exp>>)

\* a MATS+ whose third pass goes from the first word to the last
MatsAllAscending(test_block, fault) ==
  LET block_size == BlockLen(test_block)
      n  == RangeCount(0, block_size, 8)
      s0 == [log |-> <<>>] @@ Fresh(test_block, block_size)
      s1 == ForRange(LAMBDA s, k : WritePass(s, fault, 8 * k, Zero8),
                     s0, 0, n)
      s2 == ForRange(LAMBDA s, k :
                       ReadWritePass(s, fault, 8 * k, Zero8, Ones8),
                     s1, 0, n)
      s3 == ForRange(LAMBDA s, k :
                       ReadWritePass(s, fault, 8 * k, Ones8, Zero8),
                     s2, 0, n)
      s4 == ForRange(LAMBDA s, k : ReadPass(s, fault, 8 * k, Zero8),
                     s3, 0, n)
  IN s4

mats_plus_test(test_block, fault) ==
  LET block_size == BlockLen(test_block)
      n  == RangeCount(0, block_size, 8)
      s0 == [log |-> <<>>] @@ Fresh(test_block, block_size)
      \* Phase 1: write all 0s in ascending order
      s1 == ForRange(LAMBDA s, k : WritePass(s, fault, 8 * k, Zero8),
                     s0, 0, n)
      \* Phase 2: read 0, write 1, ascending
      s2 == ForRange(LAMBDA s, k :
                       ReadWritePass(s, fault, 8 * k, Zero8, Ones8),
                     s1, 0, n)
      \* Phase 3: read 1, write 0, descending
      s3 == ForRange(LAMBDA s, k :
                       ReadWritePass(s, fault, block_size - 8 - 8 * k,
                                     Ones8, Zero8),
                     s2, 0, n)
      \* Phase 4: read 0, ascending
      s4 == ForRange(LAMBDA s, k : ReadPass(s, fault, 8 * k, Zero8),
                     s3, 0, n)
  IN s4

\* march_c_minus_test without its first pass
MarchNoInit(test_block, fault) ==
  LET block_size == BlockLen(test_block)
      n  == RangeCount(0, block_size, 8)
      s1 == [log |-> <<>>]
              @@ [Fresh(test_block, block_size) EXCEPT !.operations = n]
      s2 == ForRange(LAMBDA s, k :
                       ReadWritePass(s, fault, 8 * k, Zero8, Ones8),
                     s1, 0, n)
      s3 == ForRange(LAMBDA s, k :
                       ReadWritePass(s, fault, 8 * k, Ones8, Zero8),
                     s2, 0, n)
      s4 == ForRange(LAMBDA s, k :
                       ReadWritePass(s, fault, block_size - 8 - 8 * k,
                                     Zero8, Ones8),
                     s3, 0, n)
      s5 == ForRange(LAMBDA s, k :
                       ReadWritePass(s, fault, block_size - 8 - 8 * k,
                                     Ones8, Zero8),
                     s4, 0, n)
      s6 == ForRange(LAMBDA s, k : ReadPass(s, fault, 8 * k, Zero8),
                     s5, 0, n)
  IN s6

march_c_minus_test(test_block, fault) ==
  LET block_size == BlockLen(test_block)
      n  == RangeCount(0, block_size, 8)
      s0 == [log |-> <<>>] @@ Fresh(test_block, block_size)
      \* Phase 1: write 0, ascending
      s1 == ForRange(LAMBDA s, k : WritePass(s, fault, 8 * k, Zero8),
                     s0, 0, n)
      \* Phase 2: read 0, write 1, ascending
      s2 == ForRange(LAMBDA s, k :
                       ReadWritePass(s, fault, 8 * k, Zero8, Ones8),
                     s1, 0, n)
      \* Phase 3: read 1, write 0, ascending
      s3 == ForRange(LAMBDA s, k :
                       ReadWritePass(s, fault, 8 * k, Ones8, Zero8),
                     s2, 0, n)
      \* Phase 4: read 0, write 1, descending
      s4 == ForRange(LAMBDA s, k :
                       ReadWritePass(s, fault, block_size - 8 - 8 * k,
                                     Zero8, Ones8),
                     s3, 0, n)
      \* Phase 5: read 1, write 0, descending
      s5 == ForRange(LAMBDA s, k :
                       ReadWritePass(s, fault, block_size - 8 - 8 * k,
                                     Ones8, Zero8),
                     s4, 0, n)
      \* Phase 6: read 0, ascending
      s6 == ForRange(LAMBDA s, k : ReadPass(s, fault, 8 * k, Zero8),
                     s5, 0, n)
  IN s6

\* what test_jedec_patterns returns once mats_plus_test has returned m and
\* march_c_minus_test has returned c: after each algorithm
\* total_errors += errors, then total_operations += ops
JedecTotals(m, c) ==
  [mem |-> c.mem,
   errors |-> m.errors + c.errors,
   operations |-> m.operations + c.operations,
   low |-> Min(Min(m.low, c.low),
               Min(Min(0 - m.errors, m.operations - m.errors),
                   Min(m.operations - (m.errors + c.errors),
                       (m.operations + c.operations)
                         - (m.errors + c.errors)))),
   low_step |-> Min(Min(m.low_step, c.low_step),
                    (m.operations + c.operations) - (m.errors + c.errors)),
   length |-> c.length,
   inside |-> m.inside /\ c.inside /\ c.length = m.length]

\* march_c_minus_test runs on the block as mats_plus_test left it
JedecAfterMats(m, fault) ==
  JedecTotals(m, march_c_minus_test(m.mem, fault))

\* test_jedec_patterns on an already allocated block
JedecOnBlock(test_block, fault) ==
  JedecAfterMats(mats_plus_test(test_block, fault), fault)

test_jedec_patterns(memory_mb, fault) ==
  JedecOnBlock(Alloc(memory_mb * MiB), fault)

----------------------------------------------------------------------------
(* AddressLineTest *)

\* number of address bits tested at most
AddressBits == 24

\* abs(v).bit_length()
BitLength(v) ==
  LET a == IF v < 0 THEN -v ELSE v
  IN CHOOSE k \in 0..30 : a < 2 ^ k /\ (k = 0 \/ a >= 2 ^ (k - 1))

\* ((base + v) & 0xFFFFFFFF).to_bytes(4, 'little'), base given by its bytes
AddLE32(bs, v) ==
  LET s1 == bs[1] + v
      s2 == bs[2] + (s1 \div 256)
      s3 == bs[3] + (s2 \div 256)
      s4 == bs[4] + (s3 \div 256)
  IN <<s1 % 256, s2 % 256, s3 % 256, s4 % 256>>

\* 0xAA55AA55 and 0x55AA55AA, little-endian
PatAA55AA55 == <<85, 170, 85, 170>>

Pat55AA55AA == <<170, 85, 170, 85>>

\* write the 4-byte pattern at offset, read it back and compare
WriteReadBack4(st, fault, offset, pattern) ==
  LET written == WriteBytes(st.mem, fault, offset, pattern)
      read_pattern == ReadBytes(written, fault, offset, 4)
      stored == Touched([st EXCEPT !.mem = written], offset, 4, TRUE)
      compared == Touched([stored EXCEPT !.errors =
                             @ + (IF read_pattern # pattern THEN 1 ELSE 0)],
                          offset, 4, FALSE)
  IN Logged(Logged(StepEnd(compared), <<"write", offset, pattern>>),
            <<"read", offset, pattern>>)

\* one iteration of the walking-1s loop (lines 127-149)
WalkingOnesStep(st, fault, block_size, bit_pos) ==
  IF st.brk THEN st
  ELSE LET counted == Point([st EXCEPT !.operations = @ + 1])
           offset == 2 ^ bit_pos
       IN IF offset >= block_size - 8
          THEN StepEnd([counted EXCEPT !.brk = TRUE])
          ELSE WriteReadBack4(counted, fault, offset,
                              AddLE32(PatAA55AA55, bit_pos))

\* a walking-0s loop that tests every bit position, whatever the offset
WalkingZerosStepNoSkip(st, fault, block_size, mask, bit_pos) ==
  WriteReadBack4(Point([st EXCEPT !.operations = @ + 1]), fault,
                 mask - 2 ^ bit_pos, AddLE32(Pat55AA55AA, bit_pos))

\* one iteration of the walking-0s loop (lines 155-172)
WalkingZerosStep(st, fault, block_size, mask, bit_pos) ==
  LET counted == Point([st EXCEPT !.operations = @ + 1])
      offset == mask - 2 ^ bit_pos
  IN IF offset >= block_size - 8
     THEN StepEnd(counted)
     ELSE WriteReadBack4(counted, fault, offset,
                         AddLE32(Pat55AA55AA, bit_pos))

\* test_block[i:i+8] = i.to_bytes(8, 'little')
ShortsWriteStep(st, fault, i) ==
  Logged(StepEnd(Touched(
           [st EXCEPT !.mem = WriteBytes(st.mem, fault, i, ToBytesLE(i, 8)),
                      !.operations = @ + 1],
           i, 8, TRUE)),
         <<"write", i, ToBytesLE(i, 8)>>)

\* a verify loop that reads the slot and compares nothing
ShortsVerifyNoCompare(st, fault, i) ==
  [st EXCEPT !.operations = @ + 1]

\* read_val = int.from_bytes(test_block[i:i+8]); if read_val != i: errors += 1
ShortsVerifyStep(st, fault, i) ==
  Logged(StepEnd(Touched(
           [st EXCEPT !.errors = @ + (IF ReadBytes(st.mem, fault, i, 8)
                                           # ToBytesLE(i, 8) THEN 1 ELSE 0),
                      !.operations = @ + 1],
           i, 8, FALSE)),
         <<"read", i, ToBytesLE(i, 8)>>)

\* test_address_lines with 1024 * 1024 standing for mib bytes
AddressLinesAtScale(memory_mb, mib, fault) ==
  LET block_size == memory_mb * mib
      max_bits == Min(AddressBits, BitLength(block_size - 8))
      mask == 2 ^ max_bits - 1
      n == RangeCount(0, Min(mib, block_size - 8), 8)
      s0 == [brk |-> FALSE, log |-> <<>>]
              @@ Fresh(Alloc(block_size), block_size)
      s1 == ForRange(LAMBDA s, b : WalkingOnesStep(s, fault, block_size, b),
                     s0, 0, max_bits)
      s2 == ForRange(LAMBDA s, b :
                       WalkingZerosStep(s, fault, block_size, mask, b),
                     s1, 0, max_bits)
      s3 == ForRange(LAMBDA s, k : ShortsWriteStep(s, fault, 8 * k),
                     s2, 0, n)
      s4 == ForRange(LAMBDA s, k : ShortsVerifyStep(s, fault, 8 * k),
                     s3, 0, n)
  IN IF AllocRaises(block_size) THEN Raised
     ELSE [errors |-> s4.errors, operations |-> s4.operations,
           raised |-> FALSE, log |-> s4.log, low |-> s4.low,
           low_step |-> s4.low_step, length |-> s4.length,
           inside |-> s4.inside]

test_address_lines(memory_mb, fault) ==
  AddressLinesAtScale(memory_mb, MiB, fault)

----------------------------------------------------------------------------
(* ComprehensiveRAMTest.test_walking_bits *)

\* (1 << bit).to_bytes(8, 'little')
WalkingOne(bit) ==
  [k \in 1..8 |-> IF k = (bit \div 8) + 1 THEN 2 ^ (bit % 8) ELSE 0]

\* (~(1 << bit) & 0xFFFFFFFFFFFFFFFF).to_bytes(8, 'little')
WalkingZero(bit) ==
  [k \in 1..8 |-> 255 - WalkingOne(bit)[k]]

\* a pattern that is verified on every slot before it is written
WalkingPatternVerifyFirst(st, fault, n, pattern) ==
  LET r == ForRange(LAMBDA s, k : ReadPass(s, fault, 8 * k, pattern),
                    st, 0, n)
  IN ForRange(LAMBDA s, k : WritePass(s, fault, 8 * k, pattern), r, 0, n)

\* a pattern whose verify loop stops one slot short of the region
WalkingPatternSkipsLast(st, fault, n, pattern) ==
  LET w == ForRange(LAMBDA s, k : WritePass(s, fault, 8 * k, pattern),
                    st, 0, n)
  IN ForRange(LAMBDA s, k : ReadPass(s, fault, 8 * k, pattern),
              w, 0, n - 1)

\* write the pattern to every slot of the region, then verify every slot
WalkingPattern(st, fault, n, pattern) ==
  LET w == ForRange(LAMBDA s, k : WritePass(s, fault, 8 * k, pattern),
                    st, 0, n)
  IN ForRange(LAMBDA s, k : ReadPass(s, fault, 8 * k, pattern), w, 0, n)

test_walking_bits(memory_mb, fault) ==
  LET block_size == memory_mb * MiB
      n == RangeCount(0, Min(MiB, block_size), 8)
      s0 == Fresh(Alloc(block_size), block_size)
      s1 == ForRange(LAMBDA s, bit :
                       WalkingPattern(s, fault, n, WalkingOne(bit)),
                     s0, 0, 64)
      s2 == ForRange(LAMBDA s, bit :
                       WalkingPattern(s, fault, n, WalkingZero(bit)),
                     s1, 0, 64)
  IN IF AllocRaises(block_size) THEN Raised
     ELSE [errors |-> s2.errors, operations |-> s2.operations,
           raised |-> FALSE, low |-> s2.low, low_step |-> s2.low_step,
           length |-> s2.length, inside |-> s2.inside]

----------------------------------------------------------------------------
(* RowHammerTest *)

\* the byte count that stands for a DRAM row of 8 * 1024 bytes
RowUnit == 1

\* row_sizes = [8*1024, 16*1024, 32*1024]
row_sizes == <<RowUnit, 2 * RowUnit, 4 * RowUnit>>

\* test_block[aggressor_row1] = 0xFF; test_block[aggressor_row2] = 0xFF
HammerStep(st, fault, aggressor_row1, aggressor_row2) ==
  StepEnd(Touched(Touched(
    [st EXCEPT !.mem = WriteBytes(WriteBytes(st.mem, fault, aggressor_row1,
                                             <<255>>),
                                  fault, aggressor_row2, <<255>>),
               !.operations = @ + 2],
    aggressor_row1, 1, TRUE), aggressor_row2, 1, TRUE))

\* a victim scan that counts the flips and not the reads
VictimCheckUncounted(st, fault, offset) ==
  StepEnd([st EXCEPT !.errors = @ + (IF LoadByte(st.mem, fault, offset) # 170
                                     THEN 1 ELSE 0)])

\* a victim scan that reads the byte and compares nothing
VictimCheckNoCompare(st, fault, offset) ==
  [st EXCEPT !.operations = @ + 1]

\* if test_block[offset] != 0xAA: errors += 1
VictimCheck(st, fault, offset) ==
  StepEnd(Touched(
    [st EXCEPT !.errors = @ + (IF LoadByte(st.mem, fault, offset) # 170
                               THEN 1 ELSE 0),
               !.operations = @ + 1],
    offset, 1, FALSE))

\* victim rows that are filled for the first row spacing only
PrimeVictimsFirstSpacing(st, fault, row_size) ==
  LET pattern == [k \in 1..row_size |-> 170]
  IN IF row_size # RowUnit THEN st
     ELSE [st EXCEPT !.mem =
             WriteBytes(WriteBytes(st.mem, fault, row_size, pattern),
                        fault, row_size * 2, pattern)]

\* fill both victim rows with 0xAA (lines 234-235)
PrimeVictims(st, fault, row_size) ==
  LET pattern == [k \in 1..row_size |-> 170]
  IN Touched(Touched(
       [st EXCEPT !.mem =
          WriteBytes(WriteBytes(st.mem, fault, row_size, pattern),
                     fault, row_size * 2, pattern)],
       row_size, row_size, TRUE), row_size * 2, row_size, TRUE)

\* the body of `for row_size in row_sizes` (lines 224-271)
HammerSpacing(st, fault, block_size, iterations, row_size) ==
  IF row_size * 3 >= block_size THEN st
  ELSE
    LET victim_row1 == row_size
        victim_row2 == row_size * 2
        primed == PrimeVictims(st, fault, row_size)
        aggressor_row1 == 0
        aggressor_row2 == row_size * 3
    IN IF aggressor_row2 + 8 >= block_size THEN primed
       ELSE
         LET hammered == ForRange(LAMBDA s, i :
                                    HammerStep(s, fault, aggressor_row1,
                                               aggressor_row2),
                                  primed, 0, iterations)
             v1 == ForRange(LAMBDA s, k :
                              VictimCheck(s, fault, victim_row1 + k),
                            hammered, 0, row_size)
         IN ForRange(LAMBDA s, k : VictimCheck(s, fault, victim_row2 + k),
                     v1, 0, row_size)

test_row_hammer(memory_mb, iterations, fault) ==
  LET block_size == memory_mb * MiB
      s0 == Fresh(Alloc(block_size), block_size)
      s1 == HammerSpacing(s0, fault, block_size, iterations, row_sizes[1])
      s2 == HammerSpacing(s1, fault, block_size, iterations, row_sizes[2])
      s3 == HammerSpacing(s2, fault, block_size, iterations, row_sizes[3])
  IN IF AllocRaises(block_size) THEN Raised
     ELSE [errors |-> s3.errors, operations |-> s3.operations,
           raised |-> FALSE, low |-> s3.low, low_step |-> s3.low_step,
           length |-> s3.length, inside |-> s3.inside]

----------------------------------------------------------------------------
(* MemoryBandwidthTest *)

\* every VerifyEvery-th sequential read is compared with the read counter
VerifyEvery == 1000

\* test_block[i:i+8] = write_count.to_bytes(8, 'little') at the slot the
\* inner loop has reached when write_count words have been written
SeqWriteStep(st, fault, n, write_count) ==
  StepEnd(Touched(
    [st EXCEPT !.mem = WriteBytes(st.mem, fault, 8 * (write_count % n),
                                  ToBytesLE(write_count, 8)),
               !.operations = @ + 1],
    8 * (write_count % n), 8, TRUE))

\* val = read; if read_count % 1000 == 0 and val != read_count: errors += 1
SeqReadStep(st, fault, n, read_count) ==
  LET val == ReadBytes(st.mem, fault, 8 * (read_count % n), 8)
  IN StepEnd(Touched(
       [st EXCEPT !.errors = @ + (IF read_count % VerifyEvery = 0
                                     /\ val # ToBytesLE(read_count, 8)
                                  THEN 1 ELSE 0),
                  !.operations = @ + 1],
       8 * (read_count % n), 8, FALSE))

\* write value at offset, read it back at once and compare; the error is
\* counted before operations += 2
RandomStep(st, fault, offset, value) ==
  LET written == WriteBytes(st.mem, fault, offset, value)
      read_val == ReadBytes(written, fault, offset, 8)
      stored == Touched([st EXCEPT !.mem = written], offset, 8, TRUE)
      compared == Point(Touched(
                    [stored EXCEPT !.errors =
                       @ + (IF read_val # value THEN 1 ELSE 0)],
                    offset, 8, FALSE))
  IN StepEnd([compared EXCEPT !.operations = @ + 2])

\* The three sub-phases run until their deadline: writes, reads and rnd are
\* what they manage to do before it (rnd: the <<offset, value>> pairs drawn
\* by random.randint).  random.randint(0, block_size - 8) raises ValueError
\* when block_size - 8 < 0.
test_bandwidth(memory_mb, duration_seconds, fault, writes, reads, rnd) ==
  LET block_size == memory_mb * MiB
      n == RangeCount(0, block_size, 8)
      s0 == Fresh(Alloc(block_size), block_size)
      s1 == ForRange(LAMBDA s, c : SeqWriteStep(s, fault, n, c),
                     s0, 0, writes)
      s2 == ForRange(LAMBDA s, c : SeqReadStep(s, fault, n, c),
                     s1, 0, reads)
      s3 == ForRange(LAMBDA s, q :
                       RandomStep(s, fault, rnd[q + 1][1], rnd[q + 1][2]),
                     s2, 0, Len(rnd))
  IN IF AllocRaises(block_size) \/ (Len(rnd) > 0 /\ block_size - 8 < 0)
     THEN Raised
     ELSE [errors |-> s3.errors, operations |-> s3.operations,
           raised |-> FALSE, read_errors |-> s2.errors, low |-> s3.low,
           low_step |-> s3.low_step, length |-> s3.length,
           inside |-> s3.inside]

\* what the deadlines allow: nothing when the sub-phase budget
\* duration_seconds / 3 is 0, and no sequential access on an empty block
BandwidthInputOK(memory_mb, duration_seconds, writes, reads, rnd) ==
  /\ duration_seconds = 0 => (writes = 0 /\ reads = 0 /\ rnd = <<>>)
  /\ memory_mb * MiB = 0 => (writes = 0 /\ reads = 0)
  /\ \A q \in 1..Len(rnd) :
       memory_mb * MiB - 8 >= 0 => rnd[q][1] \in 0..(memory_mb * MiB - 8)

----------------------------------------------------------------------------
(* ComprehensiveRAMTest and main: state *)

VARIABLES
  pc,               \* position of main / run_comprehensive_test
  cur,              \* index in PhaseOrder of the phase being checked or run
  memory_mb,        \* self.memory_mb
  duration,         \* self.duration
  running,          \* self.running
  results,          \* self.results[phase] = {'errors', 'operations'}
  ecc_result,       \* self.results['ecc_monitoring']
  total_errors,     \* self.results['total_errors']
  total_operations, \* self.results['total_operations']
  supported,        \* self.ecc_monitor.supported
  initial_ce,       \* self.ecc_monitor.initial_ce
  initial_ue,       \* self.ecc_monitor.initial_ue
  ecc_supported,    \* the local ecc_supported of run_comprehensive_test
  success,          \* the value returned by run_comprehensive_test
  exit_code,        \* the argument of sys.exit, NoExit while running
  handlers,         \* the signals for which signal_handler is installed
  edac,             \* the platform: EDAC directory present, its counters
  fault,            \* the memory backend
  trace,            \* history: the states of the state machine entered
  handed,           \* history: memory_mb argument handed to each phase
  bw_input,         \* history: what the bandwidth deadlines allowed
  observed,         \* history: a phase-entry check has found running false
  sig_in_run,       \* history: a signal arrived during run_comprehensive_test
  sig_during,       \* history: phases in progress when a signal arrived
  argv_ok,          \* sys.argv[1] and sys.argv[2] are integer literals
  snapshot          \* history: what read_ecc_counters returned last

ovars == <<pc, cur, memory_mb, duration, running, results, ecc_result,
           total_errors, total_operations, supported, initial_ce,
           initial_ue, ecc_supported, success, exit_code, handlers, edac,
           fault, trace, handed, bw_input, observed, sig_in_run,
           sig_during, argv_ok, snapshot>>

\* a stand-alone run of the JEDEC algorithms
VARIABLES jpc, jblock, jfault, jfill, jmats, jmarch, jlog

jvars == <<jpc, jblock, jfault, jfill, jmats, jmarch, jlog>>

\* a stand-alone call of one test function
VARIABLES
  upc,     \* "fresh" before the call, "done" or "raised" after it
  utest,   \* the test function called
  umb,     \* its memory_mb argument
  uiter,   \* its second argument: iterations (row hammer),
           \* duration_seconds (bandwidth) or duration (the whole run)
  ufault,  \* the memory backend
  ures,    \* what it returned
  ulog,    \* history: the accesses of the address-line test, in order
  uinput   \* history: what the bandwidth deadlines allowed

uvars == <<upc, utest, umb, uiter, ufault, ures, ulog, uinput>>

vars == <<ovars, jvars, uvars>>

\* an order in which the bandwidth phase comes before the JEDEC phase
PhaseOrderSwapped ==
  <<"address_line", "walking_bits", "bandwidth", "jedec_patterns",
    "row_hammer">>

\* the order of the five `if self.running:` blocks (lines 645-686)
PhaseOrder ==
  <<"address_line", "walking_bits", "jedec_patterns", "bandwidth",
    "row_hammer">>

Phases == {PhaseOrder[i] : i \in 1..Len(PhaseOrder)}

\* the values run_comprehensive_test is started with; a negative memory_mb
\* passes int() and makes the first allocation fail
MemoryMbs == {-1, 1, 2, 8}

Durations == {3, 9}

OrchFaults == {Healthy, StuckAt(0, 0, 1)}

\* largest value an EDAC counter reaches
MaxEcc == 1
\* most words a time-boxed sequential sub-phase gets through
MaxWords == 4
\* the iteration count that stands for iterations=500000
HammerIterations == 2

NoExit == -1

NoInput == [writes |-> 0, reads |-> 0, rnd |-> <<>>]

\* the <<offset, value>> draws of the random-access sub-phase: none or one
RandomDraws(mb) ==
  {<<>>} \cup
  {<< <<off, val>> >> :
     off \in {0, 3} \cup {o \in {mb * MiB - 8} : o >= 0},
     val \in {Ones8}}

BandwidthInputs(mb, test_duration) ==
  {i \in [writes : 0..MaxWords, reads : 0..MaxWords, rnd : RandomDraws(mb)] :
     BandwidthInputOK(mb, test_duration, i.writes, i.reads, i.rnd)}

----------------------------------------------------------------------------
(* ECCMonitor *)

\* The platform is the EDAC directory: present or not, and below it one
\* entry per memory controller mc<k> with its ce_count and ue_count files;
\* a file is "ok" (holds its counter), "missing", or "unreadable" (open or
\* int() fails).
Controller(ce_file, ce, ue_file, ue) ==
  [ce_file |-> ce_file, ce |-> ce, ue_file |-> ue_file, ue |-> ue]

NoEdac == [present |-> FALSE, mcs |-> <<>>]

\* the local names ce and ue of read_ecc_counters before their first
\* assignment
Unbound == -1

\* check_ecc_support: the EDAC directory exists and has a controller
check_ecc_support(platform) == platform.present /\ Len(platform.mcs) > 0

\* one counter file of the loop body (lines 61-65, 68-72): nothing when the
\* file does not exist; an exception when it cannot be read; otherwise the
\* local name is bound and the total grows
ReadCounterFile(st, kind, file, value) ==
  IF st.failed \/ file = "missing" THEN st
  ELSE IF file = "unreadable" THEN [st EXCEPT !.failed = TRUE]
  ELSE IF kind = "ce"
       THEN [st EXCEPT !.ce = @ + value, !.local_ce = value]
       ELSE [st EXCEPT !.ue = @ + value, !.local_ue = value]

\* counters['details'].append(...) (lines 74-78)
AppendDetail(st, k) ==
  IF st.failed THEN st
  ELSE [st EXCEPT !.details =
          Append(@, [controller |-> k,
                     ce |-> IF st.local_ce # Unbound THEN st.local_ce ELSE 0,
                     ue |-> IF st.local_ue # Unbound THEN st.local_ue
                            ELSE 0])]

\* for mc_dir in mc_dirs (lines 57-78), from controller number k on
RECURSIVE ReadControllers(_, _, _)
ReadControllers(st, mcs, k) ==
  IF k > Len(mcs) \/ st.failed THEN st
  ELSE LET mc == mcs[k]
           c == ReadCounterFile(st, "ce", mc.ce_file, mc.ce)
           u == ReadCounterFile(c, "ue", mc.ue_file, mc.ue)
       IN ReadControllers(AppendDetail(u, k), mcs, k + 1)

\* a version of read_ecc_counters whose loop is not inside try/except
ReadCountersUncaught(sup, platform) ==
  LET st == ReadControllers([ce |-> 0, ue |-> 0, details |-> <<>>,
                             local_ce |-> Unbound, local_ue |-> Unbound,
                             failed |-> FALSE],
                            IF platform.present THEN platform.mcs ELSE <<>>,
                            1)
  IN IF ~sup
     THEN [ce |-> 0, ue |-> 0, details |-> <<>>, raised |-> FALSE]
     ELSE [ce |-> st.ce, ue |-> st.ue, details |-> st.details,
           raised |-> st.failed]

\* read_ecc_counters: `except Exception` ends the loop and the counters
\* gathered so far are returned
read_ecc_counters(sup, platform) ==
  LET st == ReadControllers([ce |-> 0, ue |-> 0, details |-> <<>>,
                             local_ce |-> Unbound, local_ue |-> Unbound,
                             failed |-> FALSE],
                            IF platform.present THEN platform.mcs ELSE <<>>,
                            1)
  IN IF ~sup
     THEN [ce |-> 0, ue |-> 0, details |-> <<>>, raised |-> FALSE]
     ELSE [ce |-> st.ce, ue |-> st.ue, details |-> st.details,
           raised |-> FALSE]

\* start_monitoring: the baseline and the value returned
start_monitoring(sup, platform) ==
  LET initial == read_ecc_counters(sup, platform)
  IN [initial_ce |-> initial.ce, initial_ue |-> initial.ue,
      supported |-> sup, snapshot |-> initial, raised |-> initial.raised]

\* get_new_errors
get_new_errors(sup, platform, init_ce, init_ue) ==
  LET current == read_ecc_counters(sup, platform)
  IN [correctable |-> current.ce - init_ce,
      uncorrectable |-> current.ue - init_ue,
      details |-> current.details,
      snapshot |-> current, raised |-> current.raised]

----------------------------------------------------------------------------
(* ComprehensiveRAMTest and main: operations *)

ZeroResults == [p \in Phases |-> [errors |-> 0, operations |-> 0]]

NoEcc == [correctable |-> 0, uncorrectable |-> 0]

NoSnapshot == [ce |-> 0, ue |-> 0, details |-> <<>>, raised |-> FALSE]

\* the state after ComprehensiveRAMTest.__init__ (lines 527-544), for the
\* start position and the inputs given
InitWith(pc0, argvs, mbs, ds, platforms, faults) ==
  /\ pc = pc0
  /\ argv_ok \in argvs
  /\ snapshot = NoSnapshot
  /\ cur = 0
  /\ memory_mb \in mbs
  /\ duration \in ds
  /\ running = TRUE
  /\ results = ZeroResults
  /\ ecc_result = [supported |-> FALSE, errors |-> NoEcc]
  /\ total_errors = 0
  /\ total_operations = 0
  /\ supported = FALSE
  /\ initial_ce = 0
  /\ initial_ue = 0
  /\ ecc_supported = FALSE
  /\ success = FALSE
  /\ exit_code = NoExit
  /\ handlers = {}
  /\ edac \in platforms
  /\ fault \in faults
  /\ trace = <<>>
  /\ handed = [p \in Phases |-> -1]
  /\ bw_input = NoInput
  /\ observed = FALSE
  /\ sig_in_run = FALSE
  /\ sig_during = {}

NoResult == [errors |-> -1, operations |-> -1]

\* the stand-alone JEDEC runs are not part of an orchestrator run
JIdle ==
  /\ jpc = "idle"
  /\ jblock = <<>>
  /\ jfault = Healthy
  /\ jfill = 0
  /\ jmats = NoResult
  /\ jmarch = NoResult
  /\ jlog = <<>>

\* no test function is called on its own beside the run
UIdle ==
  /\ upc = "idle"
  /\ utest = "none"
  /\ umb = 0
  /\ uiter = 0
  /\ ufault = Healthy
  /\ ures = NoResult
  /\ ulog = <<>>
  /\ uinput = NoInput

\* no EDAC directory, or one memory controller with both counters at 0
Platforms ==
  {NoEdac,
   [present |-> TRUE, mcs |-> <<Controller("ok", 0, "ok", 0)>>]}

Init ==
  /\ InitWith("main", BOOLEAN, MemoryMbs, Durations, Platforms, OrchFaults)
  /\ JIdle
  /\ UIdle

\* the positions that lie inside run_comprehensive_test
RunPcs ==
  {"install_sigterm", "install_sigint", "ecc_baseline", "check", "phase",
   "ecc_final", "aggregate"}

\* the positions inside the try block of main
TryPcs == RunPcs \cup {"main", "returned"}

\* main, lines 810-814: the tester is constructed; ECCMonitor() probes
\* int(sys.argv[...]) raises ValueError for anything but an integer literal
Construct ==
  /\ pc = "main"
  /\ IF argv_ok
     THEN /\ supported' = check_ecc_support(edac)
          /\ pc' = "install_sigterm"
          /\ UNCHANGED exit_code
     ELSE /\ pc' = "exited"
          /\ exit_code' = 2
          /\ UNCHANGED supported
  /\ UNCHANGED <<cur, memory_mb, duration, running, results, ecc_result,
                 total_errors, total_operations, initial_ce, initial_ue,
                 ecc_supported, success, handlers, edac, fault,
                 trace, handed, bw_input, observed, sig_in_run, sig_during,
                 argv_ok, snapshot, jvars, uvars>>

\* line 612: signal.signal(signal.SIGTERM, self.signal_handler)
InstallSigterm ==
  /\ pc = "install_sigterm"
  /\ handlers' = handlers \cup {"SIGTERM"}
  /\ pc' = "install_sigint"
  /\ UNCHANGED <<cur, memory_mb, duration, running, results, ecc_result,
                 total_errors, total_operations, supported, initial_ce,
                 initial_ue, ecc_supported, success, exit_code, edac, fault,
                 trace, handed, bw_input, observed, sig_in_run, sig_during,
                 argv_ok, snapshot, jvars, uvars>>

\* line 613: signal.signal(signal.SIGINT, self.signal_handler)
InstallSigint ==
  /\ pc = "install_sigint"
  /\ handlers' = handlers \cup {"SIGINT"}
  /\ pc' = "ecc_baseline"
  /\ UNCHANGED <<cur, memory_mb, duration, running, results, ecc_result,
                 total_errors, total_operations, supported, initial_ce,
                 initial_ue, ecc_supported, success, exit_code, edac, fault,
                 trace, handed, bw_input, observed, sig_in_run, sig_during,
                 argv_ok, snapshot, jvars, uvars>>

\* lines 636-643: ecc_supported = self.ecc_monitor.start_monitoring()
StartMonitoring ==
  /\ pc = "ecc_baseline"
  /\ LET started == start_monitoring(supported, edac)
     IN /\ initial_ce' = started.initial_ce
        /\ initial_ue' = started.initial_ue
        /\ snapshot' = started.snapshot
        /\ IF started.raised
           THEN /\ pc' = "exited"
                /\ cur' = 0
                /\ exit_code' = 2
                /\ UNCHANGED <<ecc_supported, ecc_result, trace>>
           ELSE /\ ecc_supported' = started.supported
                /\ ecc_result' = IF started.supported
                                 THEN [ecc_result EXCEPT !.supported = TRUE]
                                 ELSE ecc_result
                /\ trace' = Append(trace, "ECC_BASELINE")
                /\ pc' = "check"
                /\ cur' = 1
                /\ UNCHANGED exit_code
  /\ UNCHANGED <<memory_mb, duration, running, results, total_errors,
                 total_operations, supported, success, handlers,
                 edac, fault, handed, bw_input, observed, sig_in_run,
                 sig_during, argv_ok, jvars, uvars>>

\* where control goes after the block of phase number i
AfterPhasePc(i) == IF i < Len(PhaseOrder) THEN "check" ELSE "ecc_final"

AfterPhaseCur(i) == IF i < Len(PhaseOrder) THEN i + 1 ELSE 0

\* a budget whose bandwidth share has no ceiling
BudgetNoCeiling(p, mb) ==
  CASE p = "address_line"   -> Min(200, mb \div 4)
    [] p = "walking_bits"   -> Min(200, mb \div 4)
    [] p = "jedec_patterns" -> Min(300, mb \div 3)
    [] p = "bandwidth"      -> mb \div 2
    [] p = "row_hammer"     -> Min(100, mb \div 8)

\* min(ceiling, self.memory_mb // divisor): the argument of each phase
Budget(p, mb) ==
  CASE p = "address_line"   -> Min(200, mb \div 4)
    [] p = "walking_bits"   -> Min(200, mb \div 4)
    [] p = "jedec_patterns" -> Min(300, mb \div 3)
    [] p = "bandwidth"      -> Min(500, mb \div 2)
    [] p = "row_hammer"     -> Min(100, mb \div 8)

\* test_duration = min(self.duration // 4, 60)
TestDuration(d) == Min(d \div 4, 60)

\* a last phase that is entered without looking at the stop flag
EntersAlwaysRowHammer(p) == running \/ p = "row_hammer"

\* the condition of the `if self.running:` before phase p
Enters(p) == running

\* `if self.running:` of phase p: the phase is entered or skipped
CheckPhase(p) ==
  /\ pc = "check"
  /\ PhaseOrder[cur] = p
  /\ IF Enters(p)
     THEN /\ pc' = "phase"
          /\ cur' = cur
          /\ handed' = [handed EXCEPT ![p] = Budget(p, memory_mb)]
          /\ trace' = Append(trace, p)
          /\ UNCHANGED observed
     ELSE /\ pc' = AfterPhasePc(cur)
          /\ cur' = AfterPhaseCur(cur)
          /\ observed' = TRUE
          /\ UNCHANGED <<handed, trace>>
  /\ UNCHANGED <<memory_mb, duration, running, results, ecc_result,
                 total_errors, total_operations, supported, initial_ce,
                 initial_ue, ecc_supported, success, exit_code, handlers,
                 edac, fault, bw_input, sig_in_run, sig_during,
                 argv_ok, snapshot, jvars, uvars>>

\* the pair a test function hands back when it returns
PhaseReturn(r) ==
  [errors |-> r.errors, operations |-> r.operations, raised |-> FALSE,
   low |-> r.low, low_step |-> r.low_step, length |-> r.length,
   inside |-> r.inside]

\* the call of the phase's test function with the argument handed to it
RunPhase(p, mb, d, f, inp) ==
  CASE p = "address_line"   -> test_address_lines(mb, f)
    [] p = "walking_bits"   -> test_walking_bits(mb, f)
    [] p = "jedec_patterns" ->
         IF AllocRaises(mb * MiB) THEN Raised
         ELSE PhaseReturn(test_jedec_patterns(mb, f))
    [] p = "bandwidth"      ->
         test_bandwidth(mb, TestDuration(d), f, inp.writes, inp.reads,
                        inp.rnd)
    [] p = "row_hammer"     -> test_row_hammer(mb, HammerIterations, f)

\* a phase that gives up its result when the stop flag is set
StoreResultIfRunning(p, r) ==
  IF running
  THEN [results EXCEPT ![p] = [errors |-> r.errors,
                               operations |-> r.operations]]
  ELSE results

\* self.results[p]['errors'] = errors; self.results[p]['operations'] = ops
StoreResult(p, r) ==
  [results EXCEPT ![p] = [errors |-> r.errors, operations |-> r.operations]]

\* the phase runs to its end and its result is stored; an exception
\* raised by the phase reaches `except Exception` of main: sys.exit(2)
FinishPhase(p) ==
  /\ pc = "phase"
  /\ PhaseOrder[cur] = p
  /\ \E inp \in IF p = "bandwidth"
                THEN BandwidthInputs(handed[p], TestDuration(duration))
                ELSE {NoInput} :
       \E r \in {RunPhase(p, handed[p], duration, fault, inp)} :
          /\ bw_input' = IF p = "bandwidth" THEN inp ELSE bw_input
          /\ IF r.raised
             THEN /\ pc' = "exited"
                  /\ cur' = 0
                  /\ exit_code' = 2
                  /\ UNCHANGED results
             ELSE /\ pc' = AfterPhasePc(cur)
                  /\ cur' = AfterPhaseCur(cur)
                  /\ results' = StoreResult(p, r)
                  /\ UNCHANGED exit_code
  /\ UNCHANGED <<memory_mb, duration, running, ecc_result, total_errors,
                 total_operations, supported, initial_ce, initial_ue,
                 ecc_supported, success, handlers, edac, fault, trace,
                 handed, observed, sig_in_run, sig_during,
                 argv_ok, snapshot, jvars, uvars>>

\* lines 688-707: `if ecc_supported:` the counters are read a second time
EccFinal ==
  /\ pc = "ecc_final"
  /\ IF ecc_supported
     THEN LET ecc_errors == get_new_errors(supported, edac, initial_ce,
                                           initial_ue)
          IN /\ snapshot' = ecc_errors.snapshot
             /\ IF ecc_errors.raised
                THEN /\ pc' = "exited"
                     /\ exit_code' = 2
                     /\ UNCHANGED <<ecc_result, total_errors, trace>>
                ELSE /\ ecc_result' =
                          [ecc_result EXCEPT !.errors =
                             [correctable |-> ecc_errors.correctable,
                              uncorrectable |-> ecc_errors.uncorrectable]]
                     /\ total_errors' =
                          IF ecc_errors.uncorrectable > 0
                          THEN total_errors + ecc_errors.uncorrectable
                          ELSE total_errors
                     /\ trace' = Append(trace, "ECC_FINAL")
                     /\ pc' = "aggregate"
                     /\ UNCHANGED exit_code
     ELSE /\ pc' = "aggregate"
          /\ UNCHANGED <<ecc_result, total_errors, trace, snapshot,
                         exit_code>>
  /\ UNCHANGED <<cur, memory_mb, duration, running, results,
                 total_operations, supported, initial_ce, initial_ue,
                 ecc_supported, success, handlers, edac, fault,
                 handed, bw_input, observed, sig_in_run, sig_during,
                 argv_ok, jvars, uvars>>

\* a sum that leaves out the walking-bits phase
SumErrorsFour(res) ==
  res["address_line"].errors + res["row_hammer"].errors
    + res["bandwidth"].errors + res["jedec_patterns"].errors

\* sum([...['errors'] of the five phases])
SumErrors(res) ==
  res["address_line"].errors + res["row_hammer"].errors
    + res["bandwidth"].errors + res["jedec_patterns"].errors
    + res["walking_bits"].errors

\* sum([...['operations'] of the five phases])
SumOperations(res) ==
  res["address_line"].operations + res["row_hammer"].operations
    + res["bandwidth"].operations + res["jedec_patterns"].operations
    + res["walking_bits"].operations

\* lines 709-729: the totals are assigned, the verdict is returned
Aggregate ==
  /\ pc = "aggregate"
  /\ total_errors' = SumErrors(results)
  /\ total_operations' = SumOperations(results)
  /\ success' = (total_errors' = 0)
  /\ trace' = Append(trace, "AGGREGATE")
  /\ pc' = "returned"
  /\ UNCHANGED <<cur, memory_mb, duration, running, results, ecc_result,
                 supported, initial_ce, initial_ue, ecc_supported, exit_code,
                 handlers, edac, fault, handed, bw_input, observed,
                 sig_in_run, sig_during,
                 argv_ok, snapshot, jvars, uvars>>

\* main, lines 817-836: the result file is written; sys.exit(0 if success
\* else 1)
Exit ==
  /\ pc = "returned"
  /\ exit_code' = IF success THEN 0 ELSE 1
  /\ pc' = "exited"
  /\ UNCHANGED <<cur, memory_mb, duration, running, results, ecc_result,
                 total_errors, total_operations, supported, initial_ce,
                 initial_ue, ecc_supported, success, handlers, edac, fault,
                 trace, handed, bw_input, observed, sig_in_run, sig_during,
                 argv_ok, snapshot, jvars, uvars>>

\* A signal is delivered to the process.  With signal_handler installed
\* the handler runs (self.running = False).  Without it SIGINT raises
\* KeyboardInterrupt, caught in main (sys.exit(130)), and SIGTERM ends the
\* process.
Signal(sig) ==
  /\ pc \in TryPcs
  /\ sig_in_run' = (sig_in_run \/ pc \in RunPcs)
  /\ IF sig \in handlers
     THEN /\ running' = FALSE
          /\ sig_during' = IF pc = "phase"
                           THEN sig_during \cup {PhaseOrder[cur]}
                           ELSE sig_during
          /\ UNCHANGED <<pc, cur, exit_code>>
     ELSE /\ pc' = IF sig = "SIGINT" THEN "exited" ELSE "killed"
          /\ cur' = 0
          /\ exit_code' = IF sig = "SIGINT" THEN 130 ELSE exit_code
          /\ UNCHANGED <<running, sig_during>>
  /\ UNCHANGED <<memory_mb, duration, results, ecc_result, total_errors,
                 total_operations, supported, initial_ce, initial_ue,
                 ecc_supported, success, handlers, edac, fault, trace,
                 handed, bw_input, observed,
                 argv_ok, snapshot, jvars, uvars>>

\* the platform counts a correctable or an uncorrectable ECC error
EccTick(kind) ==
  /\ pc \in TryPcs
  /\ edac.present
  /\ \E k \in 1..Len(edac.mcs) :
       /\ edac.mcs[k][IF kind = "ce" THEN "ce_file" ELSE "ue_file"] = "ok"
       /\ edac.mcs[k][kind] < MaxEcc
       /\ edac' = [edac EXCEPT !.mcs[k][kind] = @ + 1]
  /\ UNCHANGED <<pc, cur, memory_mb, duration, running, results, ecc_result,
                 total_errors, total_operations, supported, initial_ce,
                 initial_ue, ecc_supported, success, exit_code, handlers,
                 fault, trace, handed, bw_input, observed, sig_in_run,
                 sig_during,
                 argv_ok, snapshot, jvars, uvars>>

Next ==
  \/ Construct
  \/ InstallSigterm
  \/ InstallSigint
  \/ StartMonitoring
  \/ \E p \in Phases : CheckPhase(p)
  \/ \E p \in Phases : FinishPhase(p)
  \/ EccFinal
  \/ Aggregate
  \/ Exit
  \/ \E sig \in {"SIGINT", "SIGTERM"} : Signal(sig)
  \/ \E kind \in {"ce", "ue"} : EccTick(kind)

Spec == Init /\ [][Next]_vars

----------------------------------------------------------------------------
(* Stand-alone runs of the JEDEC algorithms on one block *)

JedecSizes == {8 * w : w \in 8..MaxJedecWords}

\* healthy, or any one bit of any byte of the block stuck at 0 or at 1
JedecFaults(block_size) ==
  {Healthy} \cup
  {StuckAt(off, bit, val) :
     off \in 0..(block_size - 1), bit \in 0..7, val \in {0, 1}}

\* no orchestrator runs beside a stand-alone JEDEC run
OIdle == InitWith("idle", {TRUE}, {1}, {3}, {NoEdac}, {Healthy})

JInit ==
  /\ OIdle
  /\ jpc = "fresh"
  /\ \E S \in JedecSizes :
       /\ jfill \in {0, 255}
       /\ jblock = Filled(S, jfill)
       /\ jfault \in JedecFaults(S)
  /\ jmats = NoResult
  /\ jmarch = NoResult
  /\ jlog = <<>>
  /\ UIdle

\* errors, ops = JEDECPatternTest.mats_plus_test(test_block)
JRunMats ==
  /\ jpc = "fresh"
  /\ LET r == mats_plus_test(jblock, jfault)
     IN /\ jblock' = r.mem
        /\ jmats' = [errors |-> r.errors, operations |-> r.operations]
        /\ jlog' = r.log
  /\ jpc' = "after_mats"
  /\ UNCHANGED <<jfault, jfill, jmarch, ovars, uvars>>

\* errors, ops = JEDECPatternTest.march_c_minus_test(test_block)
JRunMarch ==
  /\ jpc \in {"fresh", "after_mats"}
  /\ LET r == march_c_minus_test(jblock, jfault)
     IN /\ jblock' = r.mem
        /\ jmarch' = [errors |-> r.errors, operations |-> r.operations]
        /\ jlog' = r.log
  /\ jpc' = "after_march"
  /\ UNCHANGED <<jfault, jfill, jmats, ovars, uvars>>

JNext == JRunMats \/ JRunMarch

SpecJedec == JInit /\ [][JNext]_vars

\* the k-th access (k from 0) of a pass over n words that reads each word,
\* expecting exp, and then writes wr to it; word(j) is the j-th word visited
ReadThenWrite(k, word(_), exp, wr) ==
  IF k % 2 = 0 THEN <<"read", 8 * word(k \div 2), exp>>
  ELSE <<"write", 8 * word(k \div 2), wr>>

\* the accesses of MATS+ on n words, as the claim lists them
MatsAccesses(n) ==
  [i \in 1..(6 * n) |->
     IF i <= n THEN <<"write", 8 * (i - 1), Zero8>>
     ELSE IF i <= 3 * n
     THEN ReadThenWrite(i - n - 1, LAMBDA j : j, Zero8, Ones8)
     ELSE IF i <= 5 * n
     THEN ReadThenWrite(i - 3 * n - 1, LAMBDA j : n - 1 - j, Ones8, Zero8)
     ELSE <<"read", 8 * (i - 5 * n - 1), Zero8>>]

\* the accesses of March C- on n words, as the claim lists them
MarchAccesses(n) ==
  [i \in 1..(10 * n) |->
     IF i <= n THEN <<"write", 8 * (i - 1), Zero8>>
     ELSE IF i <= 3 * n
     THEN ReadThenWrite(i - n - 1, LAMBDA j : j, Zero8, Ones8)
     ELSE IF i <= 5 * n
     THEN ReadThenWrite(i - 3 * n - 1, LAMBDA j : j, Ones8, Zero8)
     ELSE IF i <= 7 * n
     THEN ReadThenWrite(i - 5 * n - 1, LAMBDA j : n - 1 - j, Zero8, Ones8)
     ELSE IF i <= 9 * n
     THEN ReadThenWrite(i - 7 * n - 1, LAMBDA j : n - 1 - j, Ones8, Zero8)
     ELSE <<"read", 8 * (i - 9 * n - 1), Zero8>>]

\* one access of a list carried out on the block: a read that differs from
\* the value it expects is counted
Replay(st, f, access) ==
  IF access[1] = "write"
  THEN [st EXCEPT !.mem = WriteBytes(st.mem, f, access[2], access[3]),
                  !.operations = @ + 1]
  ELSE [st EXCEPT !.errors = @ + (IF ReadBytes(st.mem, f, access[2], 8)
                                       # access[3] THEN 1 ELSE 0),
                  !.operations = @ + 1]

\* the number of reads of the access list that differ from the value they
\* expect, on the block as it was before the run
Mismatches(accesses, block, f) ==
  ForRange(LAMBDA st, k : Replay(st, f, accesses[k + 1]),
           [mem |-> block, errors |-> 0, operations |-> 0],
           0, Len(accesses)).errors

\* C19: on a block of n 8-byte words mats_plus_test performs exactly the
\* accesses: write 0 to words 0..n-1 ascending; for words 0..n-1 ascending
\* read (expect 0) then write all-ones; for words n-1..0 descending read
\* (expect all-ones) then write 0; read (expect 0) words 0..n-1 ascending;
\* and errors is the number of these reads that differ from the expected
\* value.
C19_MatsAccessSequence ==
  jpc = "after_mats" =>
    LET n == BlockLen(jblock) \div 8
    IN /\ jlog = MatsAccesses(n)
       /\ jmats.operations = 6 * n
       /\ jmats.errors =
            Mismatches(jlog, Filled(BlockLen(jblock), jfill), jfault)

\* MATS+ has run on the largest block with a data bit stuck at 1 and has
\* counted the reads that expected 0 in that word
C19_Witness ==
  /\ jpc = "after_mats"
  /\ BlockLen(jblock) = 8 * MaxJedecWords
  /\ jfault = StuckAt(9, 7, 1)
  /\ Len(jlog) = 6 * MaxJedecWords
  /\ jlog[3 * MaxJedecWords + 1] =
       <<"read", 8 * (MaxJedecWords - 1), Ones8>>
  /\ jmats.errors = 2

\* C20: on a block of n 8-byte words march_c_minus_test performs exactly
\* six passes: write 0 ascending; read 0 / write 1 ascending; read 1 /
\* write 0 ascending; read 0 / write 1 descending; read 1 / write 0
\* descending; read 0 ascending; in a read/write pass the read of a word
\* comes right before the write of the same word; and operations is the
\* number of reads plus writes, 10n.
C20_MarchAccessSequence ==
  jpc = "after_march" =>
    LET n == BlockLen(jblock) \div 8
    IN /\ jlog = MarchAccesses(n)
       /\ jmarch.operations = Len(jlog)
       /\ jmarch.operations = 10 * n

\* March C- has run on a fresh block filled with 0xFF and has started its
\* fourth pass at the last word
C20_Witness ==
  /\ jpc = "after_march"
  /\ jmats = NoResult
  /\ jfill = 255
  /\ BlockLen(jblock) = 8 * MaxJedecWords
  /\ Len(jlog) = 10 * MaxJedecWords
  /\ jlog[5 * MaxJedecWords + 1] =
       <<"read", 8 * (MaxJedecWords - 1), Zero8>>
  /\ jlog[5 * MaxJedecWords + 2] =
       <<"write", 8 * (MaxJedecWords - 1), Ones8>>
  /\ jmarch.operations = 10 * MaxJedecWords

\* C21: when one bit of one 8-byte word of the block is stuck at 0 or at 1,
\* whatever the word and the bit, mats_plus_test reports at least one error
\* and march_c_minus_test reports at least one error.
C21_StuckBitDetected ==
  jfault.kind = "stuck" =>
    /\ jpc = "after_mats" => jmats.errors >= 1
    /\ jpc = "after_march" => jmarch.errors >= 1

\* both algorithms have run on a block whose last word has its top bit
\* stuck at 0, and each has counted its reads that expected all-ones
C21_Witness ==
  /\ jpc = "after_march"
  /\ jfault = StuckAt(BlockLen(jblock) - 1, 7, 0)
  /\ jfill = 255
  /\ jmats.errors = 1
  /\ jmarch.errors = 2

\* C10: on a healthy block whose size is a multiple of 8 and at least 64
\* bytes, MATS+ reports zero errors and March C- reports zero errors, on a
\* fresh block as well as right after MATS+ on the same block; the initial
\* write-0 pass makes this independent of what the block held before.
C10_JedecHealthyZeroErrors ==
  jfault = Healthy =>
    /\ jmats.errors \in {-1, 0}
    /\ jmarch.errors \in {-1, 0}

\* March C- has run right after MATS+ on a fresh all-zero healthy block
C10_Witness ==
  /\ jfault = Healthy
  /\ jfill = 0
  /\ jpc = "after_march"
  /\ jmats.errors = 0
  /\ jmats.operations = 6 * (BlockLen(jblock) \div 8)
  /\ jmarch.errors = 0
  /\ jmarch.operations = 10 * (BlockLen(jblock) \div 8)

----------------------------------------------------------------------------
(* The phase budgets on their own, for every requested memory_mb *)

\* largest memory_mb of the budget runs
MaxBudgetMb == 1010

BInit ==
  /\ InitWith("budget", {TRUE}, 0..MaxBudgetMb, {9}, {NoEdac}, {Healthy})
  /\ JIdle
  /\ UIdle

\* the argument expression of the call of phase p (lines 648, 656, 664,
\* 673, 682)
HandBudget(p) ==
  /\ pc = "budget"
  /\ handed[p] = -1
  /\ handed' = [handed EXCEPT ![p] = Budget(p, memory_mb)]
  /\ UNCHANGED <<pc, cur, memory_mb, duration, running, results, ecc_result,
                 total_errors, total_operations, supported, initial_ce,
                 initial_ue, ecc_supported, success, exit_code, handlers,
                 edac, fault, trace, bw_input, observed, sig_in_run,
                 sig_during, argv_ok, snapshot, jvars, uvars>>

BNext == \E p \in Phases : HandBudget(p)

SpecBudget == BInit /\ [][BNext]_vars

----------------------------------------------------------------------------
(* The ECC monitor on its own: probe, baseline, final read *)

\* most memory controllers below the EDAC directory
MaxControllers == 2

FileStates == {"ok", "missing", "unreadable"}

\* a counter file that is not there or cannot be read holds no value
Controllers ==
  {c \in [ce_file : FileStates, ce : 0..MaxEcc,
          ue_file : FileStates, ue : 0..MaxEcc] :
     /\ c.ce_file # "ok" => c.ce = 0
     /\ c.ue_file # "ok" => c.ue = 0}

\* no EDAC directory, or one with up to MaxControllers controllers
EccPlatforms ==
  {NoEdac} \cup
  {[present |-> TRUE, mcs |-> m] :
     m \in UNION {[1..n -> Controllers] : n \in 0..MaxControllers}}

EInit ==
  /\ InitWith("ecc_new", {TRUE}, {1}, {3}, EccPlatforms, {Healthy})
  /\ JIdle
  /\ UIdle

\* ECCMonitor.__init__: self.supported = self.check_ecc_support()
EProbe ==
  /\ pc = "ecc_new"
  /\ supported' = check_ecc_support(edac)
  /\ pc' = "ecc_ready"
  /\ UNCHANGED <<cur, memory_mb, duration, running, results, ecc_result,
                 total_errors, total_operations, initial_ce, initial_ue,
                 ecc_supported, success, exit_code, handlers, edac, fault,
                 trace, handed, bw_input, observed, sig_in_run, sig_during,
                 argv_ok, snapshot, jvars, uvars>>

\* ecc_supported = monitor.start_monitoring()
EStart ==
  /\ pc = "ecc_ready"
  /\ LET started == start_monitoring(supported, edac)
     IN /\ initial_ce' = started.initial_ce
        /\ initial_ue' = started.initial_ue
        /\ snapshot' = started.snapshot
        /\ ecc_supported' = started.supported
        /\ pc' = IF started.raised THEN "ecc_raised" ELSE "ecc_started"
  /\ UNCHANGED <<cur, memory_mb, duration, running, results, ecc_result,
                 total_errors, total_operations, supported, success,
                 exit_code, handlers, edac, fault, trace, handed, bw_input,
                 observed, sig_in_run, sig_during, argv_ok, jvars, uvars>>

\* ecc_errors = monitor.get_new_errors()
EGet ==
  /\ pc = "ecc_started"
  /\ LET ecc_errors == get_new_errors(supported, edac, initial_ce,
                                      initial_ue)
     IN /\ snapshot' = ecc_errors.snapshot
        /\ ecc_result' =
             [supported |-> ecc_supported,
              errors |-> [correctable |-> ecc_errors.correctable,
                          uncorrectable |-> ecc_errors.uncorrectable]]
        /\ pc' = IF ecc_errors.raised THEN "ecc_raised" ELSE "ecc_read"
  /\ UNCHANGED <<cur, memory_mb, duration, running, results, total_errors,
                 total_operations, supported, initial_ce, initial_ue,
                 ecc_supported, success, exit_code, handlers, edac, fault,
                 trace, handed, bw_input, observed, sig_in_run, sig_during,
                 argv_ok, jvars, uvars>>

\* between the baseline and the final read a controller counts an error
ECount(kind) ==
  /\ pc = "ecc_started"
  /\ \E k \in 1..Len(edac.mcs) :
       /\ edac.mcs[k][IF kind = "ce" THEN "ce_file" ELSE "ue_file"] = "ok"
       /\ edac.mcs[k][kind] < MaxEcc
       /\ edac' = [edac EXCEPT !.mcs[k][kind] = @ + 1]
  /\ UNCHANGED <<pc, cur, memory_mb, duration, running, results, ecc_result,
                 total_errors, total_operations, supported, initial_ce,
                 initial_ue, ecc_supported, success, exit_code, handlers,
                 fault, trace, handed, bw_input, observed, sig_in_run,
                 sig_during, argv_ok, snapshot, jvars, uvars>>

\* between the baseline and the final read a counter of a controller
\* starts again from 0 (the EDAC driver is reloaded)
EReset(kind) ==
  /\ pc = "ecc_started"
  /\ \E k \in 1..Len(edac.mcs) :
       /\ edac.mcs[k][kind] > 0
       /\ edac' = [edac EXCEPT !.mcs[k][kind] = 0]
  /\ UNCHANGED <<pc, cur, memory_mb, duration, running, results, ecc_result,
                 total_errors, total_operations, supported, initial_ce,
                 initial_ue, ecc_supported, success, exit_code, handlers,
                 fault, trace, handed, bw_input, observed, sig_in_run,
                 sig_during, argv_ok, snapshot, jvars, uvars>>

ENext ==
  \/ EProbe
  \/ EStart
  \/ EGet
  \/ \E kind \in {"ce", "ue"} : ECount(kind)
  \/ \E kind \in {"ce", "ue"} : EReset(kind)

SpecEcc == EInit /\ [][ENext]_vars

\* C15 as stated: after get_new_errors each delta is final minus baseline
\* when the final counter is not below the baseline, and when it is below
\* (the counter was reset) no negative delta is returned.
C15_DeltaNeverNegative ==
  pc = "ecc_read" =>
    /\ snapshot.ce >= initial_ce =>
         ecc_result.errors.correctable = snapshot.ce - initial_ce
    /\ snapshot.ue >= initial_ue =>
         ecc_result.errors.uncorrectable = snapshot.ue - initial_ue
    /\ snapshot.ce < initial_ce => ~(ecc_result.errors.correctable < 0)
    /\ snapshot.ue < initial_ue => ~(ecc_result.errors.uncorrectable < 0)

\* what a counter file contributes: its value, 0 when missing or unreadable
Contribution(file, value) == IF file = "ok" THEN value ELSE 0

RECURSIVE TotalFrom(_, _, _)
TotalFrom(mcs, kind, k) ==
  IF k > Len(mcs) THEN 0
  ELSE (IF kind = "ce" THEN Contribution(mcs[k].ce_file, mcs[k].ce)
                       ELSE Contribution(mcs[k].ue_file, mcs[k].ue))
       + TotalFrom(mcs, kind, k + 1)

\* C16 as stated: a snapshot taken on a supported platform lists every
\* memory controller exactly once; a controller is listed with its own
\* counter values, 0 for a counter file that is missing or unreadable; and
\* the totals are the sums of these contributions.
C16_SnapshotListsEveryController ==
  [][(pc' \in {"ecc_started", "ecc_read"} /\ pc' # pc /\ supported) =>
       /\ Len(snapshot'.details) = Len(edac.mcs)
       /\ \A k \in 1..Len(snapshot'.details) :
            /\ k <= Len(edac.mcs)
            /\ snapshot'.details[k].controller = k
            /\ snapshot'.details[k].ce =
                 Contribution(edac.mcs[k].ce_file, edac.mcs[k].ce)
            /\ snapshot'.details[k].ue =
                 Contribution(edac.mcs[k].ue_file, edac.mcs[k].ue)
       /\ snapshot'.ce = TotalFrom(edac.mcs, "ce", 1)
       /\ snapshot'.ue = TotalFrom(edac.mcs, "ue", 1)]_vars

\* C17: the probe, start_monitoring and get_new_errors never end with an
\* exception, whatever the state of the counter files; and on a platform
\* without EDAC directory or without memory controllers supported is
\* false, every snapshot is zero-filled with no controllers, and the
\* delta returned is zero.
C17_EccNeverRaises ==
  /\ pc # "ecc_raised"
  /\ ~snapshot.raised
  /\ (pc \in {"ecc_ready", "ecc_started", "ecc_read"}
        /\ (~edac.present \/ Len(edac.mcs) = 0)) =>
       /\ ~supported
       /\ snapshot = NoSnapshot
       /\ pc # "ecc_ready" => ~ecc_supported
       /\ pc = "ecc_read" => ecc_result.errors = NoEcc

\* the final read has met an unreadable counter file on a supported
\* platform and has returned what it had gathered
C17_Witness ==
  /\ pc = "ecc_read"
  /\ supported
  /\ Len(edac.mcs) = 2
  /\ edac.mcs[1].ce_file = "ok"
  /\ edac.mcs[1].ce = 1
  /\ edac.mcs[1].ue_file = "unreadable"
  /\ snapshot.ce = 1
  /\ snapshot.details = <<>>

----------------------------------------------------------------------------
(* Stand-alone calls of the address-line, walking-bits and row-hammer tests *)

\* number of 8-byte words that stand for one MiB in the stand-alone
\* address-line calls: address bit 5 lies inside the first MiB
AddrWordsPerMiB == 8

\* 1024 * 1024 bytes in the stand-alone address-line calls
AddrMiB == 8 * AddrWordsPerMiB

\* largest memory_mb of a stand-alone call
MaxUnitMb == 2

\* a write to an aggressor offset of row spacing r that also lands in the
\* first or the last byte of the adjacent victim row
HammerFaults ==
  UNION {{Mirror(0, r), Mirror(0, 2 * r - 1),
          Mirror(3 * r, 2 * r), Mirror(3 * r, 3 * r - 1)} :
         r \in {row_sizes[i] : i \in 1..Len(row_sizes)}}

\* the backends of a stand-alone call; for the walking-bits test any bit
\* of any byte of the tested region and of the slot after it is stuck
UnitFaults(test) ==
  CASE test = "address_line" ->
         {Healthy, AddressShort(3, 5), StuckAt(8, 0, 1), Dead}
    [] test = "walking_bits" ->
         {Healthy, Dead} \cup
         {StuckAt(off, bit, val) :
            off \in 0..(MiB + 7), bit \in 0..7, val \in {0, 1}}
    [] test = "row_hammer" ->
         {Healthy, StuckAt(RowUnit, 0, 1), Dead} \cup HammerFaults
    [] test = "jedec_patterns" ->
         {Healthy, StuckAt(9, 7, 0), Dead}
    [] test = "bandwidth" ->
         {Healthy, StuckAt(0, 0, 1), Dead}
    [] test = "comprehensive" ->
         {Healthy, StuckAt(0, 0, 1), Dead}

UInit ==
  /\ OIdle
  /\ JIdle
  /\ upc = "fresh"
  /\ utest \in Phases \cup {"comprehensive"}
  /\ umb \in IF utest = "comprehensive" THEN {m \in MemoryMbs : m >= 8}
              ELSE 0..MaxUnitMb
  /\ uiter \in CASE utest = "row_hammer" -> 0..HammerIterations
                 [] utest = "bandwidth" -> {0, 1}
                 [] utest = "comprehensive" -> {d \in Durations : d >= 4}
                 [] OTHER -> {0}
  /\ ufault \in UnitFaults(utest)
  /\ ures = NoResult
  /\ ulog = <<>>
  /\ uinput = NoInput

\* the pair a test function returns, with what was followed through its
\* run
Outcome(r) ==
  [errors |-> r.errors, operations |-> r.operations, low |-> r.low,
   low_step |-> r.low_step, length |-> r.length, inside |-> r.inside]

\* errors, ops = AddressLineTest.test_address_lines(memory_mb)
URunAddressLines ==
  /\ upc = "fresh"
  /\ utest = "address_line"
  /\ LET r == AddressLinesAtScale(umb, AddrMiB, ufault)
     IN /\ ures' = Outcome(r)
        /\ ulog' = r.log
  /\ upc' = "done"
  /\ UNCHANGED <<utest, umb, uiter, ufault, uinput, ovars, jvars>>

\* errors, ops = tester.test_walking_bits(memory_mb)
URunWalkingBits ==
  /\ upc = "fresh"
  /\ utest = "walking_bits"
  /\ LET r == test_walking_bits(umb, ufault)
     IN ures' = Outcome(r)
  /\ upc' = "done"
  /\ UNCHANGED <<utest, umb, uiter, ufault, ulog, uinput, ovars, jvars>>

\* errors, ops = RowHammerTest.test_row_hammer(memory_mb, iterations)
URunRowHammer ==
  /\ upc = "fresh"
  /\ utest = "row_hammer"
  /\ LET r == test_row_hammer(umb, uiter, ufault)
     IN ures' = Outcome(r)
  /\ upc' = "done"
  /\ UNCHANGED <<utest, umb, uiter, ufault, ulog, uinput, ovars, jvars>>

\* errors, ops = MemoryBandwidthTest.test_bandwidth(memory_mb,
\* duration_seconds), the deadlines allowing inp
URunBandwidth ==
  /\ upc = "fresh"
  /\ utest = "bandwidth"
  /\ \E inp \in BandwidthInputs(umb, uiter) :
       LET r == test_bandwidth(umb, uiter, ufault, inp.writes, inp.reads,
                               inp.rnd)
       IN /\ uinput' = inp
          /\ IF r.raised
             THEN /\ upc' = "raised"
                  /\ UNCHANGED ures
             ELSE /\ upc' = "done"
                  /\ ures' = [read_errors |-> r.read_errors] @@ Outcome(r)
  /\ UNCHANGED <<utest, umb, uiter, ufault, ulog, ovars, jvars>>

\* errors, ops = JEDECPatternTest.test_jedec_patterns(memory_mb)
URunJedec ==
  /\ upc = "fresh"
  /\ utest = "jedec_patterns"
  /\ ures' = Outcome(test_jedec_patterns(umb, ufault))
  /\ upc' = "done"
  /\ UNCHANGED <<utest, umb, uiter, ufault, ulog, uinput, ovars, jvars>>

Lowest(S) == CHOOSE x \in S : \A y \in S : x <= y

\* run_comprehensive_test with no signal and no EDAC directory: the five
\* phases with their budgets, each result stored errors first (lines
\* 645-686), then total_errors and then total_operations (lines 709-722)
URunComprehensive ==
  /\ upc = "fresh"
  /\ utest = "comprehensive"
  /\ \E inp \in BandwidthInputs(Budget("bandwidth", umb),
                                 TestDuration(uiter)) :
     \E r \in {[p \in Phases |->
                  RunPhase(p, Budget(p, umb), uiter, ufault, inp)]} :
       LET res == [p \in Phases |-> [errors |-> r[p].errors,
                                      operations |-> r[p].operations]]
           returned == SumOperations(res) - SumErrors(res)
       IN /\ uinput' = inp
          /\ IF \E p \in Phases : r[p].raised
             THEN /\ upc' = "raised"
                  /\ UNCHANGED ures
             ELSE /\ upc' = "done"
                  /\ ures' =
                       [errors |-> SumErrors(res),
                        operations |-> SumOperations(res),
                        low |-> Lowest({r[p].low : p \in Phases}
                                         \cup {0 - r[p].errors : p \in Phases}
                                         \cup {0 - SumErrors(res), returned}),
                        low_step |-> Lowest({r[p].low_step : p \in Phases}
                                              \cup {returned}),
                        phases |-> res]
  /\ UNCHANGED <<utest, umb, uiter, ufault, ulog, ovars, jvars>>

UNext ==
  \/ URunAddressLines
  \/ URunWalkingBits
  \/ URunRowHammer
  \/ URunBandwidth
  \/ URunJedec
  \/ URunComprehensive

SpecUnit == UInit /\ [][UNext]_vars

\* C11: on a healthy buffer test_walking_bits reports zero errors, after
\* one write and one compared read of every 8-byte slot of the tested
\* region (the first MiB of the block) for each of the 64 single-bit-set
\* and the 64 single-bit-cleared patterns.
C11_WalkingBitsHealthy ==
  (utest = "walking_bits" /\ upc = "done" /\ ufault = Healthy) =>
    /\ ures.errors = 0
    /\ ures.operations = 2 * 64 * 2 * (Min(MiB, umb * MiB) \div 8)

\* the walking-bits test has gone over a healthy block larger than the
\* tested region
C11_Witness ==
  /\ utest = "walking_bits"
  /\ upc = "done"
  /\ ufault = Healthy
  /\ umb = 2
  /\ ures.errors = 0
  /\ ures.operations = 256 * WordsPerMiB

\* C22: when a data bit of an 8-byte slot of the tested region (the first
\* min(1 MiB, block size) bytes) is stuck at 0 or at 1, test_walking_bits
\* reports at least one error, whichever slot holds the bit.
C22_StuckDataBitDetected ==
  (utest = "walking_bits" /\ upc = "done" /\ ufault.kind = "stuck"
     /\ ufault.offset < Min(MiB, umb * MiB)) =>
    ures.errors >= 1

\* the top bit of the last slot of the tested region is stuck at 0: the
\* walking-one pattern of that bit and the 63 walking-zero patterns of the
\* other bits have failed in that slot
C22_Witness ==
  /\ utest = "walking_bits"
  /\ upc = "done"
  /\ umb = MaxUnitMb
  /\ ufault = StuckAt(MiB - 1, 7, 0)
  /\ ures.errors = 64

\* C23 as stated: the operations count returned by the address-line test
\* is the number of writes performed plus the number of read-back
\* comparisons performed over its three steps; a skipped bit position
\* adds none.
C23_OperationsCountAccesses ==
  (utest = "address_line" /\ upc = "done") => ures.operations = Len(ulog)

\* the 8-byte-aligned offsets of the first min(1 MiB, block size) bytes
ShortsOffsets(block_size) ==
  {8 * k : k \in 0..((Min(AddrMiB, block_size) \div 8) - 1)}

\* C24 as stated: the adjacency step writes the 8-byte little-endian
\* value of the offset at every 8-byte-aligned offset of the first min(1
\* MiB, block size) bytes, the last one included, and afterwards reads
\* and compares every one of them.
C24_ShortsCoverRegion ==
  (utest = "address_line" /\ upc = "done") =>
    \A o \in ShortsOffsets(umb * AddrMiB) :
      \E i, j \in 1..Len(ulog) :
        /\ i < j
        /\ ulog[i] = <<"write", o, ToBytesLE(o, 8)>>
        /\ ulog[j] = <<"read", o, ToBytesLE(o, 8)>>

\* C25 as stated: on a healthy buffer the sequential-read sub-phase of the
\* bandwidth test counts no error, whether the write sub-phase wrapped
\* around the block, stopped before the end of the block, or the read
\* sub-phase itself wraps.
C25_SequentialReadNoFalseError ==
  (utest = "bandwidth" /\ upc = "done" /\ ufault = Healthy) =>
    ures.read_errors = 0

\* C26 as stated: every offset drawn in the random-access sub-phase is
\* 8-byte-aligned and lies in [0, block_size - 8]; each iteration writes a
\* 64-bit value there, reads it back at once and counts an error exactly
\* when the two differ.
C26_RandomOffsetsAligned ==
  (utest = "bandwidth" /\ upc = "done") =>
    /\ \A q \in 1..Len(uinput.rnd) :
         /\ uinput.rnd[q][1] % 8 = 0
         /\ uinput.rnd[q][1] >= 0
         /\ uinput.rnd[q][1] <= umb * MiB - 8
    /\ ures.operations = uinput.writes + uinput.reads + 2 * Len(uinput.rnd)
    /\ ufault = Healthy => ures.errors = ures.read_errors

\* C27 as stated: for each of the five test phases, on any buffer and at
\* every point of its execution, the phase's operations counter is greater
\* than or equal to its errors counter; so is every returned pair and so
\* are the aggregated totals.
C27_OperationsNeverBelowErrors ==
  upc = "done" => (ures.low >= 0 /\ ures.operations >= ures.errors)

\* C27, amended: for each of the five test phases, on any buffer, the
\* phase's operations counter is greater than or equal to its errors
\* counter at the end of every step of its loops and when it returns, so
\* every returned (errors, operations) pair and the aggregated totals
\* satisfy operations >= errors.
C27_ReturnedOperationsCoverErrors ==
  upc = "done" =>
    /\ ures.low_step >= 0
    /\ ures.operations >= ures.errors
    /\ utest = "comprehensive" =>
         \A p \in Phases :
           ures.phases[p].operations >= ures.phases[p].errors

\* a whole run on a backend that returns nothing of what was stored has
\* returned: every phase has counted errors, the totals are in order, and
\* in between an errors counter was ahead of its operations counter
C27_Witness ==
  /\ utest = "comprehensive"
  /\ upc = "done"
  /\ ufault = Dead
  /\ \A p \in Phases : ures.phases[p].errors > 0
  /\ ures.errors > 0
  /\ ures.operations >= ures.errors
  /\ ures.low < 0
  /\ ures.low_step >= 0

\* the bytes of the block a stand-alone call allocates
UnitBlockSize ==
  umb * (IF utest = "address_line" THEN AddrMiB ELSE MiB)

\* C28: for every block size that is a positive multiple of 8 bytes,
\* every write and read of the address-line, walking-bits, JEDEC,
\* row-hammer and bandwidth tests lies inside [0, block_size), so the
\* length of the test buffer never changes during a phase.
C28_AccessesInsideBlock ==
  (upc = "done" /\ utest \in Phases /\ umb >= 1) =>
    /\ ures.inside
    /\ ures.length = UnitBlockSize

\* the random-access sub-phase has written the last 8 bytes of the largest
\* block, and the block has kept its length
C28_Witness ==
  /\ utest = "bandwidth"
  /\ upc = "done"
  /\ umb = MaxUnitMb
  /\ Len(uinput.rnd) = 1
  /\ uinput.rnd[1][1] = umb * MiB - 8
  /\ ures.inside
  /\ ures.length = umb * MiB

\* C12: on a block of at least one MiB whose address bit 5 always takes
\* the value of address bit 3, the address-line test reports at least one
\* error.
C12_AddressShortDetected ==
  (utest = "address_line" /\ upc = "done" /\ ufault = AddressShort(3, 5)
     /\ umb >= 1) =>
    ures.errors >= 1

\* the address-line test has run on a one-MiB block with bit 5 shorted to
\* bit 3 and has counted errors
C12_Witness ==
  /\ utest = "address_line"
  /\ upc = "done"
  /\ ufault = AddressShort(3, 5)
  /\ umb = 1
  /\ ures.errors >= 1
  /\ ures.operations > 0

\* C13: on a healthy buffer the row-hammer test reports zero errors for
\* every block size and every iteration count, the three row spacings
\* being run one after the other on the same block.
C13_RowHammerHealthy ==
  (utest = "row_hammer" /\ upc = "done" /\ ufault = Healthy) =>
    ures.errors = 0

\* all three spacings have been hammered and scanned on a healthy block
C13_Witness ==
  /\ utest = "row_hammer"
  /\ upc = "done"
  /\ ufault = Healthy
  /\ umb = 1
  /\ uiter = HammerIterations
  /\ ures.errors = 0
  /\ ures.operations = 3 * 2 * HammerIterations + 2 * 7 * RowUnit

\* the row spacing r is hammered on a block of block_size bytes
Hammered(block_size, r) ==
  r * 3 < block_size /\ r * 3 + 8 < block_size

\* the fault mirrors an aggressor offset of a hammered row spacing into
\* the victim row next to it
MirrorsHammered(f, block_size) ==
  /\ f.kind = "mirror"
  /\ \E i \in 1..Len(row_sizes) :
       LET r == row_sizes[i]
       IN /\ Hammered(block_size, r)
          /\ \/ f.src = 0 /\ f.dst >= r /\ f.dst < 2 * r
             \/ f.src = 3 * r /\ f.dst >= 2 * r /\ f.dst < 3 * r

\* C14: when the writes of 0xFF to an aggressor offset also land in a byte
\* of the adjacent victim row, a row-hammer test that hammers that row
\* spacing at least once reports at least one bit-flip error.
C14_MirrorDetected ==
  (utest = "row_hammer" /\ upc = "done" /\ uiter >= 1
     /\ MirrorsHammered(ufault, umb * MiB)) =>
    ures.errors >= 1

\* the second aggressor of the widest row spacing is mirrored into the
\* last byte of its victim row, and the test has counted the flip
C14_Witness ==
  /\ utest = "row_hammer"
  /\ upc = "done"
  /\ uiter = 1
  /\ umb = 1
  /\ ufault = Mirror(3 * row_sizes[3], 3 * row_sizes[3] - 1)
  /\ ures.errors = 1

----------------------------------------------------------------------------
(* Properties *)

IsPrefix(s, t) == Len(s) <= Len(t) /\ s = SubSeq(t, 1, Len(s))

\* the phases entered so far
Started == {trace[i] : i \in 1..Len(trace)} \cap Phases

\* the phase in progress, if any
InProgress == IF pc = "phase" THEN {PhaseOrder[cur]} ELSE {}

\* run_comprehensive_test has returned its verdict
Returned == pc = "returned" \/ (pc = "exited" /\ exit_code \in {0, 1})

FullOrder(ecc) ==
  <<"ECC_BASELINE", "address_line", "walking_bits", "jedec_patterns",
    "bandwidth", "row_hammer">>
    \o (IF ecc THEN <<"ECC_FINAL">> ELSE <<>>) \o <<"AGGREGATE">>

\* C1: while no stop signal has been handled, the states entered are an
\* initial part of the fixed order ECC baseline, address-line, walking-bits,
\* JEDEC, bandwidth, row-hammer, ECC final read (when ECC is supported),
\* aggregation, each entered once; the phase in progress is the one entered
\* last; and a run that returns has entered all of them.
C1_FixedOrder ==
  running =>
    /\ IsPrefix(trace, FullOrder(ecc_supported))
    /\ pc = "phase" => trace[Len(trace)] = PhaseOrder[cur]
    /\ Returned => trace = FullOrder(ecc_supported)

\* an unsignalled run on an ECC platform has exited after all the phases
C1_Witness ==
  /\ running
  /\ ~sig_in_run
  /\ pc = "exited"
  /\ exit_code = 0
  /\ ecc_supported
  /\ Len(trace) = 8
  /\ results["row_hammer"].operations > 0

\* C2: once the stop flag is set no phase that has not started is entered;
\* the errors/operations stored for a completed phase never change again;
\* a phase that was not entered keeps errors = 0 and operations = 0.
C2_StopSkipsRest ==
  [][/\ ~running => Started' = Started
     /\ \A p \in Started \ InProgress : results'[p] = results[p]
     /\ \A p \in Phases \ Started :
          results[p] = [errors |-> 0, operations |-> 0]]_vars

\* a run stopped during its first phase has exited: the first phase's
\* counts are kept, the other four phases were skipped
C2_Witness ==
  /\ pc = "exited"
  /\ exit_code = 1
  /\ ~running
  /\ Started = {"address_line"}
  /\ results["address_line"].errors > 0
  /\ results["address_line"].operations > 0
  /\ results["row_hammer"].operations = 0

\* C3 as stated: after a phase-entry check has found the stop flag set,
\* nothing but AGGREGATE is entered.
C3_DirectlyToAggregate ==
  [][observed => trace' \in {trace, Append(trace, "AGGREGATE")}]_vars

\* C3, amended: after a phase-entry check has found the stop flag set no
\* test phase is entered any more; the only state entered before AGGREGATE
\* is ECC_FINAL, and it is entered exactly when ECC is supported.
C3_NoPhaseAfterObserved ==
  [][/\ observed =>
          \/ trace' \in {trace, Append(trace, "AGGREGATE")}
          \/ ecc_supported /\ pc = "ecc_final"
               /\ trace' = Append(trace, "ECC_FINAL")
     /\ pc = "aggregate" =>
          (ecc_supported <=> trace[Len(trace)] = "ECC_FINAL")]_vars

\* a cancelled run on an ECC platform has read the counters a second time
\* and aggregated
C3_Witness ==
  /\ observed
  /\ ecc_supported
  /\ pc = "returned"
  /\ Len(trace) >= 3
  /\ trace[Len(trace) - 1] = "ECC_FINAL"
  /\ trace[Len(trace)] = "AGGREGATE"
  /\ Started # Phases

\* C4: a stop signal that arrives while a phase is executing leaves the
\* phase in progress, and whether or not the flag is set the phase ends
\* with the errors/operations its test function computes from its
\* arguments, which are stored as its result.
C4_PhaseRunsToCompletion ==
  [][/\ (pc = "phase" /\ running /\ ~running') =>
          (pc' = "phase" /\ cur' = cur /\ results' = results)
     /\ (pc = "phase" /\ pc' # "phase") =>
          LET p == PhaseOrder[cur]
              r == RunPhase(p, Budget(p, memory_mb), duration, fault,
                            bw_input')
          IN IF r.raised
             THEN pc' = "exited" /\ exit_code' = 2
             ELSE /\ pc' = AfterPhasePc(cur)
                  /\ results'[p] = [errors |-> r.errors,
                                    operations |-> r.operations]]_vars

\* a signal arrived during the JEDEC phase and the phase's counts are stored
C4_Witness ==
  /\ "jedec_patterns" \in sig_during
  /\ ~running
  /\ pc = "exited"
  /\ results["jedec_patterns"].operations =
       16 * (memory_mb \div 3) * WordsPerMiB
  /\ results["jedec_patterns"].operations > 0
  /\ results["bandwidth"].operations = 0

\* C5 as stated: a run during which an interrupt or termination signal was
\* delivered exits with code 130.
C5_CancelExits130 ==
  (pc = "exited" /\ sig_in_run) => exit_code = 130

\* C6 as stated: the verdict is true exactly when the five phases' errors
\* sum to 0 and (ECC is not supported or the uncorrectable delta is 0), and
\* the exit code is 0 for a true verdict and 1 for a false one.
C6_VerdictCountsEcc ==
  Returned =>
    LET clean == /\ results["address_line"].errors
                      + results["walking_bits"].errors
                      + results["jedec_patterns"].errors
                      + results["bandwidth"].errors
                      + results["row_hammer"].errors = 0
                 /\ (~ecc_supported \/ ecc_result.errors.uncorrectable = 0)
    IN /\ success <=> clean
       /\ pc = "exited" => exit_code = (IF clean THEN 0 ELSE 1)

\* C7: when run_comprehensive_test has returned, total_errors is the sum of
\* the five phases' errors and total_operations the sum of their operations.
C7_TotalsAreSums ==
  Returned =>
    /\ total_errors = results["address_line"].errors
                        + results["walking_bits"].errors
                        + results["jedec_patterns"].errors
                        + results["bandwidth"].errors
                        + results["row_hammer"].errors
    /\ total_operations = results["address_line"].operations
                            + results["walking_bits"].operations
                            + results["jedec_patterns"].operations
                            + results["bandwidth"].operations
                            + results["row_hammer"].operations

\* a cancelled run with phase errors and uncorrectable ECC growth has
\* returned
C7_Witness ==
  /\ pc = "returned"
  /\ observed
  /\ results["walking_bits"].errors > 0
  /\ results["row_hammer"].operations = 0
  /\ ecc_result.errors.uncorrectable > 0
  /\ total_errors > 0
  /\ total_operations > 0

\* q = min(ceiling, m // divisor), said without min and //
BudgetIs(q, m, ceiling, divisor) ==
  \/ q = ceiling /\ m >= ceiling * divisor
  \/ q < ceiling /\ divisor * q <= m /\ m < divisor * q + divisor

\* C8: the MiB handed to the address-line, walking-bits, JEDEC, bandwidth
\* and row-hammer phases are min(200, memory_mb // 4), min(200, memory_mb
\* // 4), min(300, memory_mb // 3), min(500, memory_mb // 2) and min(100,
\* memory_mb // 8), so none exceeds its ceiling.
C8_PhaseBudgets ==
  /\ handed["address_line"] # -1 =>
       BudgetIs(handed["address_line"], memory_mb, 200, 4)
  /\ handed["walking_bits"] # -1 =>
       BudgetIs(handed["walking_bits"], memory_mb, 200, 4)
  /\ handed["jedec_patterns"] # -1 =>
       BudgetIs(handed["jedec_patterns"], memory_mb, 300, 3)
  /\ handed["bandwidth"] # -1 =>
       BudgetIs(handed["bandwidth"], memory_mb, 500, 2)
  /\ handed["row_hammer"] # -1 =>
       BudgetIs(handed["row_hammer"], memory_mb, 100, 8)

\* every phase has been handed its ceiling for a memory_mb beyond all of
\* the ceilings
C8_Witness ==
  /\ memory_mb > 1000
  /\ handed = [p \in Phases |->
                 CASE p = "address_line" -> 200
                   [] p = "walking_bits" -> 200
                   [] p = "jedec_patterns" -> 300
                   [] p = "bandwidth" -> 500
                   [] p = "row_hammer" -> 100]

\* the phase's test function raises: bytearray() of a negative size, or
\* random.randint(0, block_size - 8) on an empty block
PhaseRaises(p, mb, inp) ==
  \/ mb < 0
  \/ p = "bandwidth" /\ mb = 0 /\ Len(inp.rnd) > 0

C9_HealthyRunPasses ==
  (fault = Healthy /\ running /\ pc = "exited" /\ exit_code # 130) =>
    /\ Started = Phases
    /\ total_errors = 0
    /\ success
    /\ exit_code = 0

\* the first k phases of the fixed order
FirstPhases(k) == {PhaseOrder[i] : i \in 1..k}

\* the phases in S are an initial part of the fixed order
IsOrderPrefix(S) == \E k \in 0..Len(PhaseOrder) : S = FirstPhases(k)

\* C29: the stop flag is monotonic: once it is False no step makes it True
\* again; and in every state the phases started so far are an initial part
\* of the order address-line, walking-bits, JEDEC, bandwidth, row-hammer,
\* so none is started after an earlier one was skipped.
C29_StopFlagMonotonic ==
  [][/\ ~running => ~running'
     /\ IsOrderPrefix(Started)
     /\ IsOrderPrefix(Started')]_vars

\* a run stopped during its second phase has exited: two phases were
\* started, the `if self.running:` of the others found the flag down
C29_Witness ==
  /\ pc = "exited"
  /\ ~running
  /\ observed
  /\ sig_during = {"walking_bits"}
  /\ Started = FirstPhases(2)
  /\ handed["jedec_patterns"] = -1
  /\ handed["row_hammer"] = -1

\* C30 as stated: with positive arguments, however small the budgets of
\* the phases, a run on healthy memory that no signal reaches raises in no
\* phase: it does not end with exit code 2 and when it has ended the
\* totals have been aggregated.
C30_SmallBudgetsNeverRaise ==
  (fault = Healthy /\ argv_ok /\ memory_mb >= 1 /\ duration >= 1
     /\ running /\ ~sig_in_run /\ exit_code # 130 /\ pc # "killed") =>
    /\ exit_code # 2
    /\ pc = "exited" => trace[Len(trace)] = "AGGREGATE"

====
